---- MODULE Spec2Model ----
(***************************************************************************)
(* A model of src/main.ts (URLEnhancerPlugin): the URL matcher, the title  *)
(* resolver, the title cache, the drain loop of the processing queue, the  *)
(* retry scheduler and the two event handlers.                             *)
(*                                                                         *)
(* Text is a sequence of tokens.  A token is one character, except that    *)
(*   "h"  stands for a scheme prefix  http://  or  https://                *)
(*   "w"  stands for a leading  www.  label of a host name                 *)
(*   "x"  stands for a file extension  .html / .php / .asp / .aspx         *)
(*   "%"  stands for a malformed percent escape                            *)
(*   "-"  stands for either of the separators  -  and  _                   *)
(* Offsets are 0-based as in the source; sequences are 1-based.            *)
(***************************************************************************)
EXTENDS Integers, Sequences, FiniteSets, TLC

VARIABLES
    phase,              \* "new" (constructed), "loaded" (after onload), "unloaded"
    now,                \* Date.now(), ms
    doc,                \* the editor's lines; line numbers are 0-based
    cursor,             \* editor.getCursor(): [line, ch]
    activeEditor,       \* getActiveViewOfType(MarkdownView) yields an editor
    fault,              \* what the editor's calls raise: "none", or an Error whose
                        \* message mentions fetch ("fetch"), or any other ("other")
    urlCache,           \* Map in insertion order: sequence of [url, title]
    processingUrls,     \* Set of keys
    processingQueue,    \* the task functions, each by the task it closes over
    isProcessing,
    debounceTimeout,    \* when the pending debounce timer fires, or NoTimer
    retryQueue,         \* Map in insertion order: sequence of [key, item]
    loops,              \* the running processQueue calls, each suspended at an await
    retry,              \* the processRetryQueue chain: suspended at its timer or an await
    lastWrite,          \* observation: the last editor.setLine of the engine
    lastOutcome,        \* observation: how the last run of the pipeline ended
    attempts,           \* observation: processURL calls of the scheduler, per retry key
    budget,             \* how many more events the user and the host may raise
    probe               \* the call of a pure function under examination

vars == <<phase, now, doc, cursor, activeEditor, fault, urlCache, processingUrls,
          processingQueue, isProcessing, debounceTimeout, retryQueue, loops, retry,
          lastWrite, lastOutcome, attempts, budget, probe>>

----------------------------------------------------------------------------
(* Strings *)

Scheme == "h"
Space == " "

Min(S) == CHOOSE x \in S : \A y \in S : x <= y
Max(S) == CHOOSE x \in S : \A y \in S : x >= y

\* String.prototype.substring(a, b): both ends clamped to [0, length], swapped if a > b.
Clamp(n, len) == IF n < 0 THEN 0 ELSE IF n > len THEN len ELSE n
Substring(s, a, b) ==
    LET ca == Clamp(a, Len(s))
        cb == Clamp(b, Len(s))
        lo == IF ca <= cb THEN ca ELSE cb
        hi == IF ca <= cb THEN cb ELSE ca
    IN SubSeq(s, lo + 1, hi)
SubstringFrom(s, a) == Substring(s, a, Len(s))

\* String.prototype.trim(): leading and trailing white space removed.
Trim(s) ==
    LET keep == { i \in 1..Len(s) : s[i] # Space }
    IN IF keep = {} THEN <<>> ELSE SubSeq(s, Min(keep), Max(keep))

\* s.indexOf(u, p) === p : u occurs in s exactly at offset p.
\* (indexOf clamps p to the length; a non-empty u cannot occur there.)
OccursAt(s, u, p) ==
    /\ p >= 0
    /\ p + Len(u) <= Len(s)
    /\ SubSeq(s, p + 1, p + Len(u)) = u

----------------------------------------------------------------------------
(* findURLsInText: /(?<!\]\()https?:\/\/[^\s)]+/g *)

StopChar(c) == c = Space \/ c = ")"

\* the lookbehind (?<!\]\() at offset j
PrecededByLinkOpen(text, j) == j >= 2 /\ text[j - 1] = "]" /\ text[j] = "("

\* the regular expression matches at offset j
MatchesAt(text, j) ==
    /\ j + 1 < Len(text)
    /\ text[j + 1] = Scheme
    /\ ~ PrecededByLinkOpen(text, j)
    /\ ~ StopChar(text[j + 2])

\* the offset one past the greedy [^\s)]+ run of the match that starts at j
MatchEnd(text, j) ==
    LET stops == { k \in (j + 1)..(Len(text) - 1) : StopChar(text[k + 1]) }
    IN IF stops = {} THEN Len(text) ELSE Min(stops)

\* the exec loop from lastIndex i on
RECURSIVE ExecFrom(_, _)
ExecFrom(text, i) ==
    LET starts == { j \in i..(Len(text) - 1) : MatchesAt(text, j) }
    IN IF starts = {} THEN <<>>
       ELSE LET j == Min(starts)
                e == MatchEnd(text, j)
            IN <<[url |-> Trim(SubSeq(text, j + 1, e)), index |-> j]>>
               \o ExecFrom(text, e)

findURLsInText(text) == ExecFrom(text, 0)

----------------------------------------------------------------------------
(* getTitleFromURL *)

PathSep(c) == c = "/" \/ c = Scheme        \* an inner scheme prefix ends in //
BadHostChar(c) == c \in {"[", "]", "%", Space}

\* new URL(url): [ok, hostname, rest], rest being the text after the host.
\* The slashes that follow the scheme of a special URL are skipped.
ParseURL(url) ==
    IF Len(url) = 0 \/ url[1] # Scheme THEN [ok |-> FALSE, hostname |-> <<>>, rest |-> <<>>]
    ELSE
    LET body == Tail(url)
        lead == { i \in 1..Len(body) : body[i] # "/" }
        from == IF lead = {} THEN Len(body) + 1 ELSE Min(lead)
        ends == { i \in from..Len(body) : PathSep(body[i]) }
        to == IF ends = {} THEN Len(body) + 1 ELSE Min(ends)
        raw == SubSeq(body, from, to - 1)
        \* "https:" met in the authority: its letters belong to the host
        host == IF to <= Len(body) /\ body[to] = Scheme THEN raw \o <<"s">> ELSE raw
    IN IF raw = <<>> \/ \E i \in 1..Len(raw) : BadHostChar(raw[i])
       THEN [ok |-> FALSE, hostname |-> <<>>, rest |-> <<>>]
       ELSE [ok |-> TRUE, hostname |-> host, rest |-> SubSeq(body, to, Len(body))]

\* pathname.split("/").pop() || ""
LastSegment(rest) ==
    LET seps == { i \in 1..Len(rest) : PathSep(rest[i]) }
    IN IF seps = {} THEN <<>> ELSE SubSeq(rest, Max(seps) + 1, Len(rest))

\* .replace(/[-_]/g, " ")
ReplaceSeparators(s) == [i \in 1..Len(s) |-> IF s[i] = "-" THEN Space ELSE s[i]]

\* .replace(/^www\./, "")
StripWww(host) == IF Len(host) > 0 /\ host[1] = "w" THEN Tail(host) ELSE host

\* .replace(/\.(html|php|aspx?)$/i, "")
StripExtension(s) == IF Len(s) > 0 /\ s[Len(s)] = "x" THEN SubSeq(s, 1, Len(s) - 1) ELSE s

getTitleFromURL(url) ==
    LET u == ParseURL(url)
        seg == LastSegment(u.rest)
    IN IF ~ u.ok THEN url                                         \* new URL throws
       ELSE IF \E i \in 1..Len(seg) : seg[i] = "%" THEN url       \* decodeURIComponent throws
       ELSE LET p1 == ReplaceSeparators(seg)
                p2 == IF p1 = <<>> THEN StripWww(u.hostname) ELSE p1
                p3 == Trim(ReplaceSeparators(StripExtension(p2)))
            IN IF p3 = <<>> THEN u.hostname ELSE p3

----------------------------------------------------------------------------
(* fetchPageTitleWithRetry *)

RETRIES == 3            \* default of the parameter retries
DELAY == 1000           \* default of the parameter delay, ms

\* What the network answers.  The embed lookup:
\*   throw     fetch rejects            notok    response.ok is false
\*   badjson   response.json() rejects  nofields title or provider_name missing
\*   title     both fields present
\* A direct fetch:
\*   throw     fetch rejects            opaque   response.type is "opaque"
\*   notok     response.ok is false     notitle  ok, the body has no <title>
\*   badtext   response.text() rejects  title    ok, the body has a <title>
EmbedOutcomes == {"throw", "notok", "badjson", "nofields", "title"}
FetchOutcomes == {"throw", "opaque", "notok", "notitle", "badtext", "title"}

\* `${data.provider_name} - ${data.title}`
EmbedTitle(provider, title) == provider \o <<Space, "-", Space>> \o title

\* Lines 263-277: [returned, title]
EmbedLookup(net) ==
    IF net.embed = "title"
    THEN [returned |-> TRUE, title |-> EmbedTitle(net.provider, net.title)]
    ELSE [returned |-> FALSE, title |-> <<>>]

\* the iteration it would be, did a failure of the fetch reach the outer catch
DirectFetchAttemptPropagating(url, net, o) ==
    IF o = "opaque" THEN [kind |-> "return", title |-> getTitleFromURL(url)]
    ELSE IF o = "title" THEN [kind |-> "return", title |-> Trim(net.title)]
    ELSE IF o \in {"throw", "badtext"} THEN [kind |-> "throw", title |-> <<>>]
    ELSE [kind |-> "return", title |-> getTitleFromURL(url)]

\* One iteration of the loop body, lines 280-302: [kind, title], kind being
\* "return" or "throw".  The inner catch absorbs every failure of the fetch
\* and of reading the body, and getTitleFromURL catches its own.
DirectFetchAttempt(url, net, o) ==
    IF o = "opaque" THEN [kind |-> "return", title |-> getTitleFromURL(url)]
    ELSE IF o = "title" THEN [kind |-> "return", title |-> Trim(net.title)]
    ELSE [kind |-> "return", title |-> getTitleFromURL(url)]

\* The loop of lines 279-313 from `attempt` on: [threw, title, fetches, waited],
\* fetches counting the direct fetches made and waited the backoff slept, ms.
RECURSIVE RetryLoop(_, _, _, _, _)
RetryLoop(url, net, attempt, retries, delay) ==
    IF attempt > retries
    THEN [threw |-> FALSE, title |-> url, fetches |-> 0, waited |-> 0]     \* line 316
    ELSE LET r == DirectFetchAttempt(url, net, net.fetch[attempt + 1])
         IN IF r.kind = "return"
            THEN [threw |-> FALSE, title |-> r.title, fetches |-> 1, waited |-> 0]
            ELSE IF attempt = retries
            THEN [threw |-> TRUE, title |-> <<>>, fetches |-> 1, waited |-> 0]
            ELSE LET n == RetryLoop(url, net, attempt + 1, retries, delay)
                 IN [n EXCEPT !.fetches = @ + 1, !.waited = @ + delay * 2 ^ attempt]

fetchPageTitleWithRetry(url, net) ==
    LET e == EmbedLookup(net)
    IN IF e.returned
       THEN [threw |-> FALSE, title |-> e.title, fetches |-> 0, waited |-> 0]
       ELSE RetryLoop(url, net, 0, RETRIES, DELAY)

----------------------------------------------------------------------------
(* The engine's state and its synchronous steps.  A handler runs from one   *)
(* await to the next without interruption; its code is a composition of     *)
(* the operators below over the record S of the engine's state.             *)

MaxLineLen == 16            \* a step that makes a line longer is not taken

MAX_CACHE_SIZE == 2         \* 1000 in the source; the model runs a small cache
DEBOUNCE_DELAY == 500
PAUSE_DELAY == 100          \* the pause between two tasks of the drain loop
RETRY_INTERVAL == 5000      \* processRetryQueue re-arms itself
MAX_RETRIES == 3            \* the cap of addToRetryQueue and processRetryQueue
MIN_LINE_LENGTH == 10       \* handleChange skips lines no longer than this

NoTimer == -1
NoTask == [url |-> <<>>, lineNumber |-> -1, position |-> -1, timestamp |-> -1]
NoWrite == [line |-> -1, old |-> <<>>, new |-> <<>>, task |-> NoTask, link |-> <<>>]
NoOutcome == [task |-> NoTask, how |-> "none", by |-> "none"]

S == [doc |-> doc, urlCache |-> urlCache, processingUrls |-> processingUrls,
      processingQueue |-> processingQueue, isProcessing |-> isProcessing,
      debounceTimeout |-> debounceTimeout, retryQueue |-> retryQueue,
      loops |-> loops, retry |-> retry, lastWrite |-> lastWrite,
      lastOutcome |-> lastOutcome, attempts |-> attempts]

Commit(s) ==
    /\ \A i \in 1..Len(s.doc) : Len(s.doc[i]) <= MaxLineLen
    /\ doc' = s.doc
    /\ urlCache' = s.urlCache
    /\ processingUrls' = s.processingUrls
    /\ processingQueue' = s.processingQueue
    /\ isProcessing' = s.isProcessing
    /\ debounceTimeout' = s.debounceTimeout
    /\ retryQueue' = s.retryQueue
    /\ loops' = s.loops
    /\ retry' = s.retry
    /\ lastWrite' = s.lastWrite
    /\ lastOutcome' = s.lastOutcome
    /\ attempts' = s.attempts

\* `${url}-${lineNumber}-${position}-${timestamp}` and `${url}-${lineNumber}-${position}`:
\* the numbers are non-negative, so the strings are equal iff the tuples are.
InFlightKey(task) == <<task.url, task.lineNumber, task.position, task.timestamp>>
RetryKey(task) == <<task.url, task.lineNumber, task.position>>
BatchKey(task) == <<task.url, task.lineNumber>>

\* the length of a line in characters
CharLen(c) == IF c = Scheme THEN 8 ELSE IF c = "w" THEN 4 ELSE IF c = "x" THEN 5 ELSE 1
RECURSIVE Length(_)
Length(s) == IF s = <<>> THEN 0 ELSE CharLen(Head(s)) + Length(Tail(s))

(* the cache *)
CacheIndex(cache, url) == { i \in 1..Len(cache) : cache[i].url = url }
CacheHas(cache, url) == CacheIndex(cache, url) # {}
CacheGet(cache, url) == cache[CHOOSE i \in CacheIndex(cache, url) : TRUE].title

\* Map.prototype.set: a present key keeps its place
MapSet(cache, url, title) ==
    IF CacheHas(cache, url)
    THEN [i \in 1..Len(cache) |-> IF cache[i].url = url
                                  THEN [url |-> url, title |-> title] ELSE cache[i]]
    ELSE Append(cache, [url |-> url, title |-> title])

updateCacheNoEvict(cache, url, title) == MapSet(cache, url, title)

updateCache(cache, url, title) ==
    MapSet(IF Len(cache) >= MAX_CACHE_SIZE THEN Tail(cache) ELSE cache, url, title)

(* the retry holdings *)
RetryIndex(rq, key) == { i \in 1..Len(rq) : rq[i].key = key }
RetryHas(rq, key) == RetryIndex(rq, key) # {}
RetryGet(rq, key) == rq[CHOOSE i \in RetryIndex(rq, key) : TRUE].item
RetryDelete(rq, key) == SelectSeq(rq, LAMBDA e : e.key # key)
RetrySet(rq, key, item) ==
    IF RetryHas(rq, key)
    THEN [i \in 1..Len(rq) |-> IF rq[i].key = key THEN [key |-> key, item |-> item] ELSE rq[i]]
    ELSE Append(rq, [key |-> key, item |-> item])

\* addToRetryQueue taking the delay from the count after its increment
addToRetryQueueLateBackoff(rq, task, t) ==
    LET key == RetryKey(task)
        had == RetryHas(rq, key)
        r == IF had THEN RetryGet(rq, key).retries ELSE 0
    IN IF ~ had \/ r < MAX_RETRIES
       THEN RetrySet(rq, key, [task |-> task, retries |-> r + 1,
                               nextRetry |-> t + (2 ^ (r + 1)) * 1000])
       ELSE rq

addToRetryQueue(rq, task, t) ==
    LET key == RetryKey(task)
        had == RetryHas(rq, key)
        r == IF had THEN RetryGet(rq, key).retries ELSE 0
    IN IF ~ had \/ r < MAX_RETRIES
       THEN RetrySet(rq, key, [task |-> task, retries |-> r + 1,
                               nextRetry |-> t + (2 ^ r) * 1000])
       ELSE rq

(* the editor *)
\* handleChange keeping a timer that is pending instead of replacing it
handleChangeKeepsPending(s) ==
    IF phase = "loaded" /\ s.debounceTimeout = NoTimer
    THEN [s EXCEPT !.debounceTimeout = now + DEBOUNCE_DELAY] ELSE s

\* handleChange, as the host calls it on every change of the document while
\* the plugin's events are registered: the pending timer is replaced
handleChange(s) ==
    IF phase = "loaded" THEN [s EXCEPT !.debounceTimeout = now + DEBOUNCE_DELAY] ELSE s

\* editor.setLine
SetLine(s, n, text) == handleChange([s EXCEPT !.doc[n + 1] = text])

MarkdownLink(title, url) == <<"[">> \o title \o <<"]", "(">> \o url \o <<")">>

\* replaceURLWithMarkdown taking `after` from behind the link's length
replaceURLWithMarkdownLinkLength(s, task, markdownLink) ==
    LET line == s.doc[task.lineNumber + 1]
        before == Substring(line, 0, task.position)
        after == SubstringFrom(line, task.position + Len(markdownLink))
        newLine == before \o markdownLink \o after
    IN IF line = <<>> THEN s
       ELSE [SetLine(s, task.lineNumber, newLine) EXCEPT
                !.lastWrite = [line |-> task.lineNumber, old |-> line, new |-> newLine,
                               task |-> task, link |-> markdownLink]]

replaceURLWithMarkdown(s, task, markdownLink) ==
    LET line == s.doc[task.lineNumber + 1]
        before == Substring(line, 0, task.position)
        after == SubstringFrom(line, task.position + Len(task.url))
        newLine == before \o markdownLink \o after
    IN IF line = <<>> THEN s
       ELSE [SetLine(s, task.lineNumber, newLine) EXCEPT
                !.lastWrite = [line |-> task.lineNumber, old |-> line, new |-> newLine,
                               task |-> task, link |-> markdownLink]]

(* processURL *)
\* how a run of the pipeline ended: "skipped" (the key was in flight),
\* "abandoned" (the validation failed), "hit" (the link was written with the
\* cached title), "fetched" (the link was written with the resolver's title),
\* "nowrite" (the line was empty at the write), "failed" (an error was caught)
Ended(s, task, how, by) == [s EXCEPT !.lastOutcome = [task |-> task, how |-> how, by |-> by]]

\* the validation of lines 217-223
StillThere(line, task) == line # <<>> /\ OccursAt(line, task.url, task.position)

\* Lines 214-231 and, on a cache hit, 237-241: from the call to the first
\* await or to the end.  [st, result, error], result being "returned",
\* "threw" or "await".
processURLStartUncached(s, task, key, by) ==
    LET s1 == [s EXCEPT !.processingUrls = @ \cup {key}]
        fin(x) == [x EXCEPT !.processingUrls = @ \ {key}]
        line == s.doc[task.lineNumber + 1]
    IN IF fault # "none"
       THEN [st |-> fin(s1), result |-> "threw", error |-> fault]
       ELSE IF ~ StillThere(line, task)
       THEN [st |-> Ended(fin(s1), task, "abandoned", by), result |-> "returned",
             error |-> "none"]
       ELSE [st |-> s1, result |-> "await", error |-> "none"]

\* processURL whose validation failure does not end the pipeline: the cache
\* and the network are consulted for a URL that is no longer there
processURLStartNoValidation(s, task, key, by) ==
    LET s1 == [s EXCEPT !.processingUrls = @ \cup {key}]
        fin(x) == [x EXCEPT !.processingUrls = @ \ {key}]
    IN IF fault # "none"
       THEN [st |-> fin(s1), result |-> "threw", error |-> fault]
       ELSE IF CacheHas(s.urlCache, task.url)
       THEN [st |-> Ended(fin(replaceURLWithMarkdown(s1, task,
                              MarkdownLink(CacheGet(s.urlCache, task.url), task.url))),
                          task, "hit", by),
             result |-> "returned", error |-> "none"]
       ELSE [st |-> s1, result |-> "await", error |-> "none"]

processURLStart(s, task, key, by) ==
    LET s1 == [s EXCEPT !.processingUrls = @ \cup {key}]
        fin(x) == [x EXCEPT !.processingUrls = @ \ {key}]
        line == s.doc[task.lineNumber + 1]
    IN IF fault # "none"                                       \* editor.getLine raises
       THEN [st |-> fin(s1), result |-> "threw", error |-> fault]
       ELSE IF ~ StillThere(line, task)
       THEN [st |-> Ended(fin(s1), task, "abandoned", by), result |-> "returned",
             error |-> "none"]
       ELSE IF CacheHas(s.urlCache, task.url)
       THEN [st |-> Ended(fin(replaceURLWithMarkdown(s1, task,
                              MarkdownLink(CacheGet(s.urlCache, task.url), task.url))),
                          task, "hit", by),
             result |-> "returned", error |-> "none"]
       ELSE [st |-> s1, result |-> "await", error |-> "none"]

\* Lines 233-241, the resolver having ended as r says
Resumed(s, task, key, r, by) ==
    LET fin(x) == [x EXCEPT !.processingUrls = @ \ {key}]
        s1 == [s EXCEPT !.urlCache = updateCache(@, task.url, r.title)]
    IN IF r.threw                                              \* the fetch error
       THEN [st |-> fin(s), result |-> "threw", error |-> "fetch"]
       ELSE IF fault # "none"                                  \* getLine or setLine raises
       THEN [st |-> fin(s1), result |-> "threw", error |-> fault]
       ELSE [st |-> Ended(fin(replaceURLWithMarkdown(s1, task,
                              MarkdownLink(r.title, task.url))),
                          task, IF s1.doc[task.lineNumber + 1] = <<>> THEN "nowrite"
                                ELSE "fetched", by),
             result |-> "returned", error |-> "none"]

\* Lines 233-241: from the answer of the network to the end.
processURLResume(s, task, key, net, by) ==
    Resumed(s, task, key, fetchPageTitleWithRetry(task.url, net), by)

(* addToProcessingQueue and processQueue *)
\* [...tasks].sort((a, b) => a.position - b.position): a stable sort
RECURSIVE InsertByPosition(_, _)
InsertByPosition(sorted, t) ==
    IF sorted = <<>> THEN <<t>>
    ELSE IF Head(sorted).position <= t.position
    THEN <<Head(sorted)>> \o InsertByPosition(Tail(sorted), t)
    ELSE <<t>> \o sorted
RECURSIVE SortByPosition(_)
SortByPosition(tasks) ==
    IF tasks = <<>> THEN <<>>
    ELSE InsertByPosition(SortByPosition(SubSeq(tasks, 1, Len(tasks) - 1)), tasks[Len(tasks)])

\* lines 132-138: the first task of each (url, lineNumber), in the order met
RECURSIVE FirstPerKey(_, _)
FirstPerKey(tasks, seen) ==
    IF tasks = <<>> THEN <<>>
    ELSE IF BatchKey(Head(tasks)) \in seen THEN FirstPerKey(Tail(tasks), seen)
    ELSE <<Head(tasks)>> \o FirstPerKey(Tail(tasks), seen \cup {BatchKey(Head(tasks))})

UnsortedUniqueTasks(tasks) == FirstPerKey(tasks, {})

UniqueTasks(tasks) == FirstPerKey(SortByPosition(tasks), {})

\* the catch of lines 147-152 without the test of line 149: every failure is
\* handed to the retry holdings
CatchInTaskRetriesAll(s, task, error) ==
    Ended([s EXCEPT !.retryQueue = addToRetryQueue(@, task, now)], task, "failed", "drain")

\* the catch of lines 147-152
CatchInTask(s, task, error) ==
    Ended(IF error = "fetch"
          THEN [s EXCEPT !.retryQueue = addToRetryQueue(@, task, now)]
          ELSE s,
          task, "failed", "drain")

\* the try of lines 145-152 without its catch: the error leaves the task
\* function and processQueue through its finally
AfterTaskUncaught(r, task) ==
    IF r.result = "threw"
    THEN [Ended(r.st, task, "failed", "drain") EXCEPT !.isProcessing = FALSE]
    ELSE r.st

\* the try of lines 145-152 once processURL has ended as r says
AfterTask(r, task) ==
    IF r.result = "threw" THEN CatchInTask(r.st, task, r.error) ELSE r.st

\* a task function, lines 141-153, from its call to its first await or its end
TaskFunctionStart(s, task) ==
    LET key == InFlightKey(task)
    IN IF key \in s.processingUrls
       THEN [st |-> Ended(s, task, "skipped", "drain"), result |-> "returned",
             error |-> "none"]
       ELSE LET r == processURLStart(s, task, key, "drain")
            IN IF r.result = "threw"
               THEN [st |-> CatchInTask(r.st, task, r.error), result |-> "returned",
                     error |-> "none"]
               ELSE r

RemoveAt(seq, i) == SubSeq(seq, 1, i - 1) \o SubSeq(seq, i + 1, Len(seq))

\* the pause of line 173, entered when the task function has ended
Pause(s, li) ==
    [s EXCEPT !.loops[li] = [pc |-> "pause", task |-> NoTask, timer |-> now + PAUSE_DELAY]]

\* the while loop of processQueue, from its test on, for the loop loops[li]
LoopTop(s, li) ==
    IF s.processingQueue = <<>>
    THEN [s EXCEPT !.isProcessing = FALSE, !.loops = RemoveAt(@, li)]     \* finally
    ELSE LET task == Head(s.processingQueue)
             r == TaskFunctionStart([s EXCEPT !.processingQueue = Tail(@)], task)
         IN IF r.result = "await"
            THEN [r.st EXCEPT !.loops[li] = [pc |-> "net", task |-> task, timer |-> NoTimer]]
            ELSE Pause(r.st, li)

\* processQueue without line 166: the flag is never raised
processQueueNoFlag(s) ==
    IF s.isProcessing \/ s.processingQueue = <<>> THEN s
    ELSE LoopTop([s EXCEPT !.loops = Append(@, [pc |-> "start", task |-> NoTask,
                                                timer |-> NoTimer])],
                 Len(s.loops) + 1)

processQueue(s) ==
    IF s.isProcessing \/ s.processingQueue = <<>> THEN s
    ELSE LoopTop([s EXCEPT !.isProcessing = TRUE,
                           !.loops = Append(@, [pc |-> "start", task |-> NoTask,
                                                timer |-> NoTimer])],
                 Len(s.loops) + 1)

addToProcessingQueue(s, tasks) ==
    LET s1 == [s EXCEPT !.processingQueue = @ \o UniqueTasks(tasks)]
    IN IF ~ s1.isProcessing THEN processQueue(s1) ELSE s1

(* processRetryQueue *)
AttemptsOf(att, key) ==
    IF \E a \in att : a.key = key THEN (CHOOSE a \in att : a.key = key).n ELSE 0
CountAttempt(att, key) ==
    { a \in att : a.key # key } \cup {[key |-> key, n |-> AttemptsOf(att, key) + 1]}

\* lines 192-198: what follows the awaited processURL of one entry
AfterRetry(r, e) ==
    IF r.result = "returned"
    THEN [r.st EXCEPT !.retryQueue = RetryDelete(@, e.key)]
    ELSE IF e.item.retries >= MAX_RETRIES
    THEN Ended([r.st EXCEPT !.retryQueue = RetryDelete(@, e.key)],
               e.item.task, "failed", "retry")
    ELSE Ended(r.st, e.item.task, "failed", "retry")

\* the for loop of lines 187-199 from the entry snap[i] on, then line 201
RECURSIVE RetryFrom(_, _, _)
RetryFrom(s, snap, i) ==
    IF i > Len(snap)
    THEN [s EXCEPT !.retry = [pc |-> "timer", timer |-> now + RETRY_INTERVAL,
                              snapshot |-> <<>>, idx |-> 0]]
    ELSE IF ~ activeEditor THEN RetryFrom(s, snap, i + 1)
    ELSE LET e == snap[i]
             s0 == [s EXCEPT !.attempts = CountAttempt(@, e.key)]
             r == processURLStart(s0, e.item.task, e.key, "retry")
         IN IF r.result = "await"
            THEN [r.st EXCEPT !.retry = [pc |-> "net", timer |-> NoTimer,
                                         snapshot |-> snap, idx |-> i]]
            ELSE RetryFrom(AfterRetry(r, e), snap, i + 1)

processRetryQueue(s) ==
    RetryFrom(s, SelectSeq(s.retryQueue, LAMBDA e : e.item.nextRetry <= now), 1)

----------------------------------------------------------------------------
(* The bounds of the model and what the environment may do *)

NLines == 1                 \* lines of the document
MaxUserEvents == 2          \* pastes and edits of the user in one run
MaxHostEvents == 1          \* changes of the host's condition in one run
MaxEventTime == 1000        \* the user and the host act no later than this
MaxNow == 20500             \* the clock stops here

URL1 == <<"h", "a", "b", "c">>
URL2 == <<"h", "d", "e", "f">>
PageTitle == <<"t">>
Provider == <<"p">>

\* the texts the user pastes
PasteTexts == {URL1, URL2}

\* what the network answers to the engine's runs of the resolver
NetAnswers ==
    { [embed |-> "throw", provider |-> Provider, title |-> PageTitle,
       fetch |-> [i \in 1..(RETRIES + 1) |-> f]] : f \in {"throw", "title"} }

Faults == {"none", "fetch", "other"}

NoProbe == [op |-> "none"]
IdleRetry == [pc |-> "off", timer |-> NoTimer, snapshot |-> <<>>, idx |-> 0]

EngineInit ==
    /\ phase = "new"
    /\ now = 0
    /\ doc = [i \in 1..NLines |-> <<>>]
    /\ cursor = [line |-> 0, ch |-> 0]
    /\ activeEditor = TRUE
    /\ fault \in Faults
    /\ urlCache = <<>>
    /\ processingUrls = {}
    /\ processingQueue = <<>>
    /\ isProcessing = FALSE
    /\ debounceTimeout = NoTimer
    /\ retryQueue = <<>>
    /\ loops = <<>>
    /\ retry = IdleRetry
    /\ lastWrite = NoWrite
    /\ lastOutcome = NoOutcome
    /\ attempts = {}
    /\ budget = [user |-> MaxUserEvents, host |-> MaxHostEvents]

Init == EngineInit /\ probe = NoProbe

envVars == <<phase, now, cursor, activeEditor, fault, budget, probe>>

----------------------------------------------------------------------------
(* The operations *)

CanAct(left) == left > 0 /\ now <= MaxEventTime

\* onload: the events are registered and processRetryQueue is called
OnLoad ==
    /\ phase = "new"
    /\ phase' = "loaded"
    /\ Commit(processRetryQueue(S))
    /\ UNCHANGED <<now, cursor, activeEditor, fault, budget, probe>>

\* onunload without the clearTimeout of lines 51-53
OnUnloadLeavesTimer ==
    /\ phase = "loaded"
    /\ now <= MaxEventTime
    /\ phase' = "unloaded"
    /\ Commit([S EXCEPT !.processingQueue = <<>>, !.processingUrls = {},
                        !.urlCache = <<>>, !.retryQueue = <<>>, !.isProcessing = FALSE])
    /\ UNCHANGED <<now, cursor, activeEditor, fault, budget, probe>>

\* onunload; the host drops the registered events with it
OnUnload ==
    /\ phase = "loaded"
    /\ now <= MaxEventTime
    /\ phase' = "unloaded"
    /\ Commit([S EXCEPT !.debounceTimeout = NoTimer, !.processingQueue = <<>>,
                        !.processingUrls = {}, !.urlCache = <<>>,
                        !.retryQueue = <<>>, !.isProcessing = FALSE])
    /\ UNCHANGED <<now, cursor, activeEditor, fault, budget, probe>>

TasksOf(matches, line, offset) ==
    [i \in 1..Len(matches) |-> [url |-> matches[i].url, lineNumber |-> line,
                                position |-> offset + matches[i].index,
                                timestamp |-> now]]

\* editor.replaceSelection(text), the selection being [from, to) of the cursor's line
ReplaceSelection(s, from, to, text) ==
    LET line == s.doc[cursor.line + 1]
    IN SetLine(s, cursor.line, Substring(line, 0, from) \o text \o SubstringFrom(line, to))

\* handlePaste.  The user pastes at the caret (sel = "caret"), or over the
\* cursor's line, selected from its end to its start (sel = "line"): getCursor
\* yields the head of the selection.  A text without URLs is inserted by the host.
HandlePaste(text, sel) ==
    /\ phase = "loaded"
    /\ CanAct(budget.user)
    /\ LET from == IF sel = "line" THEN 0 ELSE cursor.ch
           to == IF sel = "line" THEN Len(doc[cursor.line + 1]) ELSE cursor.ch
           matches == findURLsInText(text)
           s1 == IF Len(matches) > 0
                 THEN addToProcessingQueue(S, TasksOf(matches, cursor.line, from))
                 ELSE S
       IN /\ Commit(ReplaceSelection(s1, from, to, text))
          /\ cursor' = [cursor EXCEPT !.ch = from + Len(text)]
    /\ budget' = [budget EXCEPT !.user = @ - 1]
    /\ UNCHANGED <<phase, now, activeEditor, fault, probe>>

\* the user types: a space before the line, or the line's first character deleted
UserEdit(n, kind) ==
    /\ phase # "new"
    /\ CanAct(budget.user)
    /\ LET line == doc[n + 1]
           new == IF kind = "prepend" THEN <<Space>> \o line ELSE Tail(line)
       IN /\ kind = "cut" => line # <<>>
          /\ Commit(SetLine(S, n, new))
          /\ cursor' = [line |-> n, ch |-> IF kind = "prepend" THEN 1 ELSE 0]
    /\ budget' = [budget EXCEPT !.user = @ - 1]
    /\ UNCHANGED <<phase, now, activeEditor, fault, probe>>

\* the callback of handleChange's timer, lines 87-104
DebounceFire ==
    /\ debounceTimeout # NoTimer
    /\ now >= debounceTimeout
    /\ LET currentLine == doc[cursor.line + 1]
           urlMatches == findURLsInText(currentLine)
           s0 == [S EXCEPT !.debounceTimeout = NoTimer]
       IN IF fault # "none"                                    \* editor.getLine raises
             \/ Length(currentLine) <= MIN_LINE_LENGTH \/ Len(urlMatches) = 0
          THEN Commit(s0)
          ELSE Commit(addToProcessingQueue(s0, TasksOf(urlMatches, cursor.line, 0)))
    /\ UNCHANGED envVars

\* the network answers the resolver call a drain loop awaits
LoopNetDone(li, net) ==
    /\ loops[li].pc = "net"
    /\ LET task == loops[li].task
       IN Commit(Pause(AfterTask(processURLResume(S, task, InFlightKey(task), net, "drain"),
                                 task), li))
    /\ UNCHANGED envVars

\* processQueue with `if` for `while` at line 169: after the pause the loop
\* leaves through its finally without testing the work list
LoopPauseDoneLeaves(li) ==
    /\ loops[li].pc = "pause"
    /\ now >= loops[li].timer
    /\ Commit([S EXCEPT !.isProcessing = FALSE, !.loops = RemoveAt(@, li)])
    /\ UNCHANGED envVars

\* the pause of a drain loop ends
LoopPauseDone(li) ==
    /\ loops[li].pc = "pause"
    /\ now >= loops[li].timer
    /\ Commit(LoopTop(S, li))
    /\ UNCHANGED envVars

\* the timer of line 201 fires
RetryTimer ==
    /\ retry.pc = "timer"
    /\ now >= retry.timer
    /\ Commit(processRetryQueue(S))
    /\ UNCHANGED envVars

\* the network answers the resolver call the retry pass awaits
RetryNetDone(net) ==
    /\ retry.pc = "net"
    /\ LET e == retry.snapshot[retry.idx]
       IN Commit(RetryFrom(AfterRetry(processURLResume(S, e.item.task, e.key, net, "retry"),
                                      e),
                           retry.snapshot, retry.idx + 1))
    /\ UNCHANGED envVars

\* the editor's calls start or stop raising
SetFault(f) ==
    /\ phase = "loaded"
    /\ CanAct(budget.host)
    /\ f # fault
    /\ fault' = f
    /\ budget' = [budget EXCEPT !.host = @ - 1]
    /\ UNCHANGED <<phase, now, cursor, activeEditor, probe>>
    /\ Commit(S)

\* the user moves to another view or back: the active editor goes or comes
SwitchView ==
    /\ phase = "loaded"
    /\ CanAct(budget.host)
    /\ activeEditor' = ~ activeEditor
    /\ budget' = [budget EXCEPT !.host = @ - 1]
    /\ UNCHANGED <<phase, now, cursor, fault, probe>>
    /\ Commit(S)

\* time passes, up to the next timer that is due
Deadlines ==
    (IF debounceTimeout # NoTimer THEN {debounceTimeout} ELSE {})
    \cup { loops[i].timer : i \in { j \in 1..Len(loops) : loops[j].pc = "pause" } }
    \cup (IF retry.pc = "timer" THEN {retry.timer} ELSE {})

Tick ==
    /\ \A d \in Deadlines : d > now
    /\ Deadlines # {}
    /\ now' = Min(Deadlines)
    /\ now' <= MaxNow
    /\ UNCHANGED <<phase, cursor, activeEditor, fault, budget, probe>>
    /\ Commit(S)

Next ==
    \/ OnLoad
    \/ OnUnload
    \/ \E text \in PasteTexts, sel \in {"caret", "line"} : HandlePaste(text, sel)
    \/ \E n \in 0..(NLines - 1), kind \in {"prepend", "cut"} : UserEdit(n, kind)
    \/ DebounceFire
    \/ \E li \in 1..Len(loops), net \in NetAnswers : LoopNetDone(li, net)
    \/ \E li \in 1..Len(loops) : LoopPauseDone(li)
    \/ RetryTimer
    \/ \E net \in NetAnswers : RetryNetDone(net)
    \/ \E f \in Faults : SetFault(f)
    \/ SwitchView
    \/ Tick

Spec == Init /\ [][Next]_vars

\* a pipeline is suspended at the await of line 233
AwaitsNetwork == (\E li \in 1..Len(loops) : loops[li].pc = "net") \/ retry.pc = "net"

\* the debounce timer of line 86 is due and its callback has not run
DebounceDue == debounceTimeout # NoTimer /\ now >= debounceTimeout

\* the pause of line 173 is over and its loop has not gone on
PauseDue == \E li \in 1..Len(loops) : loops[li].pc = "pause" /\ now >= loops[li].timer

\* the timer of line 201 is due and processRetryQueue has not run
RetryDue == retry.pc = "timer" /\ now >= retry.timer

\* The engine when time passes, every timer that is due fires, and every
\* awaited call of the resolver ends (it makes at most RETRIES attempts for an
\* address, each ending with an answer or an error).  The callback of a timer
\* and the resumption of a pipeline are steps that the program takes whenever
\* their condition holds and that end the condition, so weak fairness of
\* these steps is stated through the conditions: none of them lasts forever.
\* (A behaviour in which the step is not taken because a line would outgrow
\* MaxLineLen is thereby left out as well; such a behaviour is cut short by
\* the bound, not by the program.)
Fairness ==
    /\ WF_vars(Tick)
    /\ []<>(~ DebounceDue)
    /\ []<>(~ PauseDue)
    /\ []<>(~ RetryDue)
    /\ []<>(~ AwaitsNetwork)

SpecFair == Spec /\ Fairness

----------------------------------------------------------------------------
(* The pure functions, each applied to inputs drawn from a bounded set *)

MaxTextLen == 4             \* every text up to this length is scanned
MaxBatch == 3               \* tasks in a batch handed to addToProcessingQueue

RECURSIVE SeqsUpTo(_, _)
SeqsUpTo(A, n) ==
    IF n = 0 THEN {<<>>}
    ELSE LET shorter == SeqsUpTo(A, n - 1)
         IN shorter \cup { Append(q, c) : q \in shorter, c \in A }

MatcherAlphabet == {Scheme, "a", Space, "[", "]", "(", ")"}
ShortURL == <<Scheme, "a">>
NestedURL == <<Scheme, "a", "/", Scheme, "a">>      \* https://a/https://a
Labels == {<<>>, <<"a">>, ShortURL}
Targets == {<<"a">>, ShortURL, NestedURL}
Margins == {<<>>, <<Space>>, <<"a">>, ShortURL \o <<Space>>, <<Space>> \o ShortURL}

\* the texts scanned: every short text, and the texts that hold a markdown link
MatcherTexts ==
    SeqsUpTo(MatcherAlphabet, MaxTextLen)
    \cup { pre \o MarkdownLink(l, t) \o post :
             pre \in Margins, l \in Labels, t \in Targets, post \in Margins }

\* the titles a page may carry: a plain one, and one that is itself a URL
ProbeTitles == {PageTitle, ShortURL}

MatcherInit ==
    /\ EngineInit
    /\ fault = "none"
    /\ probe \in { [op |-> "scan", text |-> t, stage |-> "text", matches |-> <<>>,
                   written |-> [from |-> 0, to |-> 0]] : t \in MatcherTexts }

\* findURLsInText is applied to the text
Scan ==
    /\ probe.op = "scan"
    /\ probe.stage \in {"text", "rewritten"}
    /\ probe' = [probe EXCEPT !.matches = findURLsInText(probe.text),
                              !.stage = IF @ = "text" THEN "scanned" ELSE "rescanned"]
    /\ UNCHANGED <<phase, now, cursor, activeEditor, fault, budget>>
    /\ Commit(S)

\* the text being a line, the occurrence matches[i] is rewritten as the
\* pipeline does it (lines 237-238 and 374-380), with the title the resolver gave
Rewrite(i, title) ==
    /\ probe.op = "scan"
    /\ probe.stage = "scanned"
    /\ i \in 1..Len(probe.matches)
    /\ LET m == probe.matches[i]
           link == MarkdownLink(title, m.url)
           new == Substring(probe.text, 0, m.index) \o link
                  \o SubstringFrom(probe.text, m.index + Len(m.url))
       IN /\ Len(new) <= MaxLineLen
          /\ probe' = [probe EXCEPT !.text = new, !.stage = "rewritten", !.matches = <<>>,
                                    !.written = [from |-> m.index,
                                                 to |-> m.index + Len(link)]]
    /\ UNCHANGED <<phase, now, cursor, activeEditor, fault, budget>>
    /\ Commit(S)

MatcherNext ==
    \/ Scan
    \/ \E i \in 1..MaxTextLen, title \in ProbeTitles : Rewrite(i, title)
    \/ \E i \in 1..MaxTextLen : Rewrite(i, getTitleFromURL(probe.matches[i].url))

SpecMatcher == MatcherInit /\ [][MatcherNext]_vars

\* the URLs resolved
ResolverURLs ==
    { URL1,
      <<Scheme, "a", "/", "b", "-", "c", "x">>,     \* https://a/b_c.html
      <<Scheme, "w", "a", "/">>,                    \* https://www.a/
      <<Scheme, "a", "/", "-">>,                    \* https://a/_
      <<Scheme, "a", "/", "%">>,                    \* https://a/100%
      <<Scheme, "[">> }                             \* https://[

ResolverNets ==
    { [embed |-> e, provider |-> Provider, title |-> PageTitle, fetch |-> f] :
        e \in EmbedOutcomes, f \in [1..(RETRIES + 1) -> FetchOutcomes] }

ResolverInit ==
    /\ EngineInit
    /\ fault = "none"
    /\ probe \in { [op |-> "resolve", url |-> u, net |-> n, done |-> FALSE,
                   res |-> [threw |-> FALSE, title |-> <<>>, fetches |-> 0, waited |-> 0]] :
                   u \in ResolverURLs, n \in ResolverNets }

\* fetchPageTitleWithRetry is applied to the URL, the network answering as net says
Resolve ==
    /\ probe.op = "resolve"
    /\ ~ probe.done
    /\ probe' = [probe EXCEPT !.done = TRUE,
                              !.res = fetchPageTitleWithRetry(probe.url, probe.net)]
    /\ UNCHANGED <<phase, now, cursor, activeEditor, fault, budget>>
    /\ Commit(S)

SpecResolver == ResolverInit /\ [][Resolve]_vars

\* the batches deduplicated
BatchTasks ==
    { [url |-> u, lineNumber |-> n, position |-> p, timestamp |-> 0] :
        u \in {URL1, URL2}, n \in {0, 1}, p \in {0, 5, 7} }

BatchInit ==
    /\ EngineInit
    /\ fault = "none"
    /\ probe \in { [op |-> "batch", tasks |-> b, done |-> FALSE, unique |-> <<>>] :
                   b \in SeqsUpTo(BatchTasks, MaxBatch) }

\* lines 130-138 of addToProcessingQueue are applied to the batch
Dedup ==
    /\ probe.op = "batch"
    /\ ~ probe.done
    /\ probe' = [probe EXCEPT !.done = TRUE, !.unique = UniqueTasks(probe.tasks)]
    /\ UNCHANGED <<phase, now, cursor, activeEditor, fault, budget>>
    /\ Commit(S)

SpecBatch == BatchInit /\ [][Dedup]_vars

\* the cache, filled in any order
URL3 == <<Scheme, "g", "i", "j">>
CacheURLs == {URL1, URL2, URL3}
CacheTitles(url) == {PageTitle, Provider, getTitleFromURL(url)}

CacheInit == EngineInit /\ fault = "none" /\ probe = NoProbe

\* updateCache is applied, as line 234 applies it
CachePut(url, title) ==
    /\ probe' = [op |-> "updateCache", before |-> urlCache, url |-> url, title |-> title]
    /\ UNCHANGED <<phase, now, cursor, activeEditor, fault, budget>>
    /\ Commit([S EXCEPT !.urlCache = updateCache(@, url, title)])

\* urlCache.clear(), as onunload does it
CacheClear ==
    /\ urlCache # <<>>
    /\ probe' = [op |-> "clear", before |-> urlCache, url |-> <<>>, title |-> <<>>]
    /\ UNCHANGED <<phase, now, cursor, activeEditor, fault, budget>>
    /\ Commit([S EXCEPT !.urlCache = <<>>])

CacheNext ==
    \/ \E url \in CacheURLs : \E title \in CacheTitles(url) : CachePut(url, title)
    \/ CacheClear

SpecCache == CacheInit /\ [][CacheNext]_vars

\* the documents written to: two lines, each empty, a URL, or a URL in text
WriteLines ==
    { <<>>, <<"a">>, URL1, <<Space>> \o URL1, URL1 \o <<Space, "a">>,
      <<"a", Space>> \o URL1 \o <<Space, "b">> }
MaxPosition == 3            \* the positions of the tasks applied
WriteTasks ==
    { [url |-> URL1, lineNumber |-> n, position |-> p, timestamp |-> 0] :
        n \in {0, 1}, p \in 0..MaxPosition }

WriteInit ==
    /\ EngineInit
    /\ fault = "none"
    /\ probe \in { [op |-> "write", doc |-> d, task |-> t, title |-> ti, done |-> FALSE,
                   after |-> d] :
                   d \in [1..2 -> WriteLines], t \in WriteTasks, ti \in ProbeTitles }

\* lines 237-238: the link is made and replaceURLWithMarkdown is applied to the document
Write ==
    /\ probe.op = "write"
    /\ ~ probe.done
    /\ probe' = [probe EXCEPT
                   !.done = TRUE,
                   !.after = replaceURLWithMarkdown([S EXCEPT !.doc = probe.doc], probe.task,
                                 MarkdownLink(probe.title, probe.task.url)).doc]
    /\ UNCHANGED <<phase, now, cursor, activeEditor, fault, budget>>
    /\ Commit(S)

SpecWrite == WriteInit /\ [][Write]_vars

\* the retry holdings, filled and emptied in any order at any time
MaxRetryNow == 2            \* the clock of the retry holdings stops here
RetryTasks ==
    { [url |-> URL1, lineNumber |-> 0, position |-> 0, timestamp |-> 0],
      [url |-> URL1, lineNumber |-> 0, position |-> 0, timestamp |-> 1],
      [url |-> URL2, lineNumber |-> 0, position |-> 0, timestamp |-> 0] }

RetryInit == EngineInit /\ fault = "none" /\ probe = NoProbe

\* addToRetryQueue is applied, as line 150 applies it
RetryAdd(task) ==
    /\ probe' = [op |-> "addToRetryQueue", before |-> retryQueue, task |-> task,
                 time |-> now]
    /\ UNCHANGED <<phase, now, cursor, activeEditor, fault, budget>>
    /\ Commit([S EXCEPT !.retryQueue = addToRetryQueue(@, task, now)])

\* retryQueue.delete(key), as lines 192 and 196 do it
RetryRemove(key) ==
    /\ RetryHas(retryQueue, key)
    /\ probe' = [op |-> "delete", before |-> retryQueue, task |-> NoTask, time |-> now]
    /\ UNCHANGED <<phase, now, cursor, activeEditor, fault, budget>>
    /\ Commit([S EXCEPT !.retryQueue = RetryDelete(@, key)])

\* Date.now() advances
RetryClock ==
    /\ now < MaxRetryNow
    /\ now' = now + 1
    /\ UNCHANGED <<phase, cursor, activeEditor, fault, budget, probe>>
    /\ Commit(S)

RetryNext ==
    \/ \E task \in RetryTasks : RetryAdd(task)
    \/ \E task \in RetryTasks : RetryRemove(RetryKey(task))
    \/ RetryClock

SpecRetry == RetryInit /\ [][RetryNext]_vars

\* a line with two URLs typed by the user, the last keystroke at time 0
ShiftLines ==
    { <<Scheme, "a", "b", Space, Scheme, "a">>,
      <<Scheme, "a", "b", Space, Scheme, "d">>,
      <<Scheme, "a", Space, Scheme, "d">>,
      <<Scheme, "a", Space, Scheme, "a", "b">>,
      <<Scheme, "a", Space, Scheme, "a">> }

ShiftInit ==
    /\ phase = "loaded"
    /\ now = 0
    /\ doc \in { [i \in 1..NLines |-> line] : line \in ShiftLines }
    /\ cursor = [line |-> 0, ch |-> 0]
    /\ activeEditor = TRUE
    /\ fault = "none"
    /\ urlCache = <<>>
    /\ processingUrls = {}
    /\ processingQueue = <<>>
    /\ isProcessing = FALSE
    /\ debounceTimeout = DEBOUNCE_DELAY
    /\ retryQueue = <<>>
    /\ loops = <<>>
    /\ retry = [IdleRetry EXCEPT !.pc = "timer", !.timer = RETRY_INTERVAL]
    /\ lastWrite = NoWrite
    /\ lastOutcome = NoOutcome
    /\ attempts = {}
    /\ budget = [user |-> 0, host |-> 0]
    /\ probe = NoProbe

\* the debounce callback, the batch it hands to addToProcessingQueue being recorded
ShiftScan ==
    /\ debounceTimeout # NoTimer
    /\ now >= debounceTimeout
    /\ LET currentLine == doc[cursor.line + 1]
           urlMatches == findURLsInText(currentLine)
           s0 == [S EXCEPT !.debounceTimeout = NoTimer]
       IN IF Length(currentLine) <= MIN_LINE_LENGTH \/ Len(urlMatches) = 0
          THEN /\ Commit(s0)
               /\ probe' = [op |-> "scan", time |-> now, tasks |-> <<>>]
          ELSE /\ Commit(addToProcessingQueue(s0, TasksOf(urlMatches, cursor.line, 0)))
               /\ probe' = [op |-> "scan", time |-> now,
                            tasks |-> UniqueTasks(TasksOf(urlMatches, cursor.line, 0))]
    /\ UNCHANGED <<phase, now, cursor, activeEditor, fault, budget>>

ShiftNext ==
    \/ ShiftScan
    \/ \E li \in 1..Len(loops), net \in NetAnswers : LoopNetDone(li, net)
    \/ \E li \in 1..Len(loops) : LoopPauseDone(li)
    \/ RetryTimer
    \/ Tick

SpecShift == ShiftInit /\ [][ShiftNext]_vars

----------------------------------------------------------------------------
(* The claims *)

\* C1 (as claimed): the engine writes the link into a line only if, at the
\* moment of the write, the line holds the task's URL exactly at the task's
\* position.
C1_NoStaleOverwrite ==
    lastWrite # NoWrite
        => OccursAt(lastWrite.old, lastWrite.task.url, lastWrite.task.position)

\* C2 (as claimed): the scheduler attempts no retry key more than 3 times.
C2_RetryCap == \A a \in attempts : a.n <= MAX_RETRIES

\* the runs of the pipeline that await the network, each with who started it
InFlight ==
    { [by |-> "drain", n |-> i, task |-> loops[i].task] :
        i \in { j \in 1..Len(loops) : loops[j].pc = "net" } }
    \cup (IF retry.pc = "net"
          THEN {[by |-> "retry", n |-> 0, task |-> retry.snapshot[retry.idx].item.task]}
          ELSE {})

\* C3 (as claimed): no two runs of the pipeline, of the drain loop or of the
\* scheduler, resolve the same (url, lineNumber, position, timestamp) at once.
C3_OneResolutionPerKey ==
    \A p \in InFlight, q \in InFlight :
        p # q => InFlightKey(p.task) # InFlightKey(q.task)

\* C4: at every moment the title cache holds at most MAX_CACHE_SIZE entries,
\* whatever was inserted, a cached URL included.
C4_CacheBounded == Len(urlCache) <= MAX_CACHE_SIZE

\* a new URL was inserted into a full cache
C4_Witness ==
    /\ probe.op = "updateCache"
    /\ Len(probe.before) = MAX_CACHE_SIZE
    /\ ~ CacheHas(probe.before, probe.url)
    /\ CacheHas(urlCache, probe.url)

\* C5 (as claimed): a task built by the paste handler is validated against
\* the line as it is after the pasted text has been inserted: pasted while the
\* engine is idle, a URL that stands at its position of the line afterwards is
\* not abandoned.
C5_PasteValidatedAfterInsert ==
    [][\A text \in PasteTexts, sel \in {"caret", "line"} :
         (HandlePaste(text, sel) /\ ~ isProcessing /\ fault = "none")
         => LET from == IF sel = "line" THEN 0 ELSE cursor.ch
                task == TasksOf(findURLsInText(text), cursor.line, from)[1]
            IN StillThere(doc'[cursor.line + 1], task)
               => lastOutcome' # [task |-> task, how |-> "abandoned", by |-> "drain"]
      ]_vars

\* the markdown links [label](target) of a text whose target is a URL, each as
\* the 0-based offsets of its "[", its "]" and its ")"
LinkSpans(text) ==
    { sp \in (0..(Len(text) - 1)) \X (0..(Len(text) - 1)) \X (0..(Len(text) - 1)) :
        /\ sp[1] < sp[2] /\ sp[2] + 2 < sp[3]
        /\ text[sp[1] + 1] = "[" /\ text[sp[2] + 1] = "]"
        /\ text[sp[2] + 2] = "(" /\ text[sp[3] + 1] = ")"
        /\ text[sp[2] + 3] = Scheme
        /\ \A k \in (sp[1] + 1)..(sp[2] - 1) : text[k + 1] \notin {"[", "]"}
        /\ \A k \in (sp[2] + 2)..(sp[3] - 1) : text[k + 1] \notin {Space, "(", ")"} }

\* C6 (as claimed): findURLsInText reports no occurrence inside a markdown
\* link whose target is a URL, be the link the user's or one the engine wrote
\* (whatever title the resolver gave).
C6_NeverRewrapLinked ==
    (probe.op = "scan" /\ probe.stage \in {"scanned", "rescanned"})
        => \A i \in 1..Len(probe.matches) : \A sp \in LinkSpans(probe.text) :
               ~ (sp[1] < probe.matches[i].index /\ probe.matches[i].index < sp[3])

\* C7: of the tasks of a batch that share (url, lineNumber), exactly the one
\* with the smallest position is kept, whatever the order of the batch; every
\* (url, lineNumber) of the batch keeps a task, and nothing else is kept.
C7_BatchDedup ==
    (probe.op = "batch" /\ probe.done)
        => /\ \A i \in 1..Len(probe.unique) :
                \E j \in 1..Len(probe.tasks) : probe.tasks[j] = probe.unique[i]
           /\ \A j \in 1..Len(probe.tasks) :
                LET same == { i \in 1..Len(probe.unique) :
                                BatchKey(probe.unique[i]) = BatchKey(probe.tasks[j]) }
                IN /\ Cardinality(same) = 1
                   /\ \A i \in same : probe.unique[i].position <= probe.tasks[j].position

\* a batch that lists a later position of a (url, lineNumber) first was deduplicated
C7_Witness ==
    /\ probe.op = "batch" /\ probe.done
    /\ Len(probe.tasks) = 3 /\ Len(probe.unique) = 2
    /\ BatchKey(probe.tasks[1]) = BatchKey(probe.tasks[3])
    /\ probe.tasks[1].position > probe.tasks[3].position
    /\ probe.unique[1] = probe.tasks[3]

\* C8: a run of the pipeline that starts while its URL is cached calls no
\* network and writes the link with the cached title.
C8_CacheHit ==
    [][/\ \A p \in InFlight' \ InFlight : ~ CacheHas(urlCache', p.task.url)
       /\ (lastOutcome' # lastOutcome /\ lastOutcome'.how = "hit")
          => /\ lastWrite'.task = lastOutcome'.task
             /\ CacheHas(urlCache', lastOutcome'.task.url)
             /\ lastWrite'.link =
                  MarkdownLink(CacheGet(urlCache', lastOutcome'.task.url),
                               lastOutcome'.task.url)
      ]_vars

\* the last run found its URL cached and wrote the link
C8_Witness ==
    /\ lastOutcome.how = "hit"
    /\ lastWrite.task = lastOutcome.task
    /\ CacheHas(urlCache, lastOutcome.task.url)

\* none of the calls made, the embed lookup and the first `fetches` direct
\* fetches, answered with a title
NoTitleOnNetwork(net, fetches) ==
    net.embed # "title" /\ \A i \in 1..fetches : net.fetch[i] # "title"

\* C9: fetchPageTitleWithRetry raises nothing, whatever the embed lookup and
\* the direct fetches do; it returns the embed title, the page's title or the
\* URL-derived fallback, the fallback whenever the network gave no title; and
\* how the embed lookup failed changes nothing of what follows.
C9_ResolverNeverFails ==
    (probe.op = "resolve" /\ probe.done)
        => /\ ~ probe.res.threw
           /\ probe.res.title \in { EmbedTitle(probe.net.provider, probe.net.title),
                                    Trim(probe.net.title), getTitleFromURL(probe.url) }
           /\ NoTitleOnNetwork(probe.net, probe.res.fetches)
                => probe.res.title = getTitleFromURL(probe.url)
           /\ probe.net.embed # "title"
                => \A e \in EmbedOutcomes \ {"title"} :
                     fetchPageTitleWithRetry(probe.url, [probe.net EXCEPT !.embed = e])
                       = probe.res

\* the embed lookup and every direct fetch rejected, and the fallback came back
C9_Witness ==
    /\ probe.op = "resolve" /\ probe.done
    /\ probe.net.embed = "throw"
    /\ \A i \in 1..(RETRIES + 1) : probe.net.fetch[i] = "throw"
    /\ ~ probe.res.threw
    /\ probe.res.title = getTitleFromURL(probe.url)
    /\ probe.res.title # probe.url

\* C10 (as claimed): when every direct fetch rejects, the resolver makes the
\* first attempt and 3 retries, sleeps 1000, 2000 and 4000 ms between them, and
\* then raises the error to its caller.
C10_TransientEscalation ==
    (/\ probe.op = "resolve" /\ probe.done
     /\ probe.net.embed # "title"
     /\ \A i \in 1..(RETRIES + 1) : probe.net.fetch[i] = "throw")
        => /\ probe.res.threw
           /\ probe.res.fetches = RETRIES + 1
           /\ probe.res.waited = DELAY + 2 * DELAY + 4 * DELAY

\* C11: a run of the pipeline that fails, of the drain loop or of the retry
\* pass, writes nothing; the drain loop is then at its pause, still draining
\* unless the plugin was unloaded, and the retry pass is at its next item or has re-armed its timer.
C11_FailureContained ==
    [][(lastOutcome' # lastOutcome /\ lastOutcome'.how = "failed")
       => /\ lastWrite' = lastWrite
          /\ \A n \in 1..Len(doc) :
                doc'[n] # doc[n] => \E text \in PasteTexts, sel \in {"caret", "line"} :
                                       HandlePaste(text, sel)
          /\ lastOutcome'.by = "drain"
                => /\ phase' = "loaded" => isProcessing'
                   /\ \E i \in 1..Len(loops') : loops'[i].pc = "pause"
          /\ lastOutcome'.by = "retry" => retry'.pc \in {"net", "timer"}
      ]_vars

\* a task of the drain loop failed after its fetch, and the line is as it was
C11_Witness ==
    /\ lastOutcome.how = "failed" /\ lastOutcome.by = "drain"
    /\ fault = "other"
    /\ urlCache # <<>>
    /\ isProcessing
    /\ lastWrite = NoWrite
    /\ doc[lastOutcome.task.lineNumber + 1] = lastOutcome.task.url

\* C12 (as claimed): no task waits in the work list while the retry holdings
\* have an item of the same (url, lineNumber, position).
C12_QueueRetryDisjoint ==
    \A i \in 1..Len(processingQueue) :
        ~ RetryHas(retryQueue, RetryKey(processingQueue[i]))

\* C13 (as claimed): once onunload has run, a resolution that was awaiting
\* the network writes nothing when it completes, and the cache, the in-flight
\* set, the work list and the retry holdings stay empty.
C13_DiscardedAfterTeardown ==
    [][phase = "unloaded"
       => /\ lastWrite' = lastWrite
          /\ urlCache' = <<>>
          /\ processingUrls' = {}
          /\ processingQueue' = <<>>
          /\ retryQueue' = <<>>
      ]_vars

\* C14: right after onunload the work list, the in-flight set, the cache and
\* the retry holdings are empty and the draining flag is false, whatever they
\* were; and from then on no debounce timer is pending, so none fires.
C14_TeardownClears ==
    [][/\ (phase = "loaded" /\ phase' = "unloaded")
          => /\ processingQueue' = <<>>
             /\ processingUrls' = {}
             /\ urlCache' = <<>>
             /\ retryQueue' = <<>>
             /\ ~ isProcessing'
       /\ phase' = "unloaded" => debounceTimeout' = NoTimer
      ]_vars

\* onunload ran while a resolution awaited the network and before the
\* debounce timer of the last change was due
C14_Witness ==
    /\ phase = "unloaded"
    /\ now < DEBOUNCE_DELAY
    /\ \E i \in 1..Len(loops) : loops[i].pc = "net"
    /\ processingUrls = {}
    /\ ~ isProcessing

\* the keys of a cache, oldest first
CacheKeys(cache) == [i \in 1..Len(cache) |-> cache[i].url]

\* C15 (as claimed): inserting a new URL into a full cache removes the
\* oldest key and nothing else; inserting it into a cache with room removes
\* nothing; inserting a URL that is cached leaves the keys and their order as
\* they were.
C15_FifoEviction ==
    probe.op = "updateCache"
        => CacheKeys(urlCache) =
             IF CacheHas(probe.before, probe.url) THEN CacheKeys(probe.before)
             ELSE IF Len(probe.before) >= MAX_CACHE_SIZE
             THEN Append(Tail(CacheKeys(probe.before)), probe.url)
             ELSE Append(CacheKeys(probe.before), probe.url)

\* C16: a write replaces, in the task's line, the characters from the task's
\* position on, as many as the URL has, by [title](url): what stands before
\* the position and what stands behind the span is kept in place, and the
\* other lines are as they were.  An empty line is not written.
C16_SpanSubstitution ==
    (probe.op = "write" /\ probe.done)
        => LET n == probe.task.lineNumber + 1
               old == probe.doc[n]
               new == probe.after[n]
               link == MarkdownLink(probe.title, probe.task.url)
               p == IF probe.task.position < Len(old) THEN probe.task.position ELSE Len(old)
               q == IF probe.task.position + Len(probe.task.url) < Len(old)
                    THEN probe.task.position + Len(probe.task.url) ELSE Len(old)
           IN /\ \A m \in 1..2 : m # n => probe.after[m] = probe.doc[m]
              /\ old = <<>> => new = old
              /\ old # <<>>
                   => /\ Len(new) = p + Len(link) + (Len(old) - q)
                      /\ \A k \in 1..p : new[k] = old[k]
                      /\ OccursAt(new, link, p)
                      /\ \A k \in (q + 1)..Len(old) : new[p + Len(link) + k - q] = old[k]

\* the URL stood in the middle of its line, and the other line held text
C16_Witness ==
    /\ probe.op = "write" /\ probe.done
    /\ probe.task.lineNumber = 1 /\ probe.task.position = 2
    /\ probe.doc[2] = <<"a", Space>> \o URL1 \o <<Space, "b">>
    /\ probe.doc[1] = URL1
    /\ probe.after[2] = <<"a", Space>> \o MarkdownLink(probe.title, URL1) \o <<Space, "b">>
    /\ probe.after[1] = URL1

\* C17: at most one call of processQueue is in its loop at any time; while
\* the plugin is loaded the flag isProcessing says whether one is.
C17_SingleConsumer ==
    /\ Len(loops) <= 1
    /\ phase = "loaded" => (isProcessing <=> loops # <<>>)

\* tasks were enqueued while the loop awaited the network of a task: they
\* wait in the work list
C17_Witness ==
    /\ Len(loops) = 1
    /\ loops[1].pc = "net"
    /\ isProcessing
    /\ processingQueue # <<>>

TasksAt(t) ==
    { [url |-> u, lineNumber |-> n, position |-> p, timestamp |-> t] :
        u \in PasteTexts, n \in 0..(NLines - 1), p \in 0..MaxLineLen }
PipelineTasks ==
    TasksAt(now) \cup { processingQueue[i] : i \in 1..Len(processingQueue) }
                 \cup { retryQueue[i].item.task : i \in 1..Len(retryQueue) }

\* processURL called with the key `key` for a task that fails the validation
\* returns at once, and all it leaves is the record of the outcome and the
\* key's absence from the in-flight marks
AbandonedHasNoEffect(task, key, by) ==
    processURLStart(S, task, key, by)
      = [st |-> Ended([S EXCEPT !.processingUrls = @ \ {key}], task, "abandoned", by),
         result |-> "returned", error |-> "none"]

\* C19: in every reachable state, a pipeline started for a task whose line is
\* empty or does not hold the task's URL at the task's position ends at the
\* validation: it does not await the network, and leaves the cache, the
\* document, the retry holdings and everything else as they were, the in-flight
\* mark removed; and in every step in which a task was abandoned, the task is
\* not written, the mark of its run is gone, no loop newly awaits the network
\* for it and
\* the retry holdings gain no entry for it.
C19_AbandonNoEffect ==
    /\ [](fault = "none" =>
            \A task \in PipelineTasks :
               ~ StillThere(doc[task.lineNumber + 1], task)
               => /\ AbandonedHasNoEffect(task, InFlightKey(task), "drain")
                  /\ AbandonedHasNoEffect(task, RetryKey(task), "retry"))
    /\ [][(lastOutcome' # lastOutcome /\ lastOutcome'.how = "abandoned")
          => LET task == lastOutcome'.task
             IN /\ lastWrite' = lastWrite \/ lastWrite'.task # task
                /\ lastOutcome'.by = "drain" => InFlightKey(task) \notin processingUrls'
                /\ lastOutcome'.by = "retry" => RetryKey(task) \notin processingUrls'
                /\ \A i \in 1..Len(loops') :
                      (loops'[i].pc = "net" /\ loops'[i].task = task)
                      => i <= Len(loops) /\ loops[i] = loops'[i]
                /\ RetryHas(retryQueue', RetryKey(task))
                   => RetryHas(retryQueue, RetryKey(task))
                /\ lastOutcome'.by = "drain" => urlCache' = urlCache
         ]_vars

\* a task of the drain loop was abandoned at the validation
C19_Witness ==
    /\ lastOutcome.how = "abandoned"
    /\ lastOutcome.by = "drain"
    /\ phase = "loaded"
    /\ doc[lastOutcome.task.lineNumber + 1] # <<>>
    /\ lastOutcome.task.timestamp < now

\* C20: after addToRetryQueue for a key that had no entry, the key's item has
\* retries = 1 and nextRetry = now + 1000; for a key whose item had retries
\* r < 3, the item has retries = r + 1 and nextRetry = now + 2^r * 1000; for a
\* key whose item had retries = 3, nothing has changed; the items of the other
\* keys are as they were, and every held item has 1 <= retries <= 3.
C20_RetryArithmetic ==
    /\ \A i \in 1..Len(retryQueue) :
          retryQueue[i].item.retries >= 1 /\ retryQueue[i].item.retries <= 3
    /\ probe.op = "addToRetryQueue"
       => LET key == RetryKey(probe.task)
              item == RetryGet(retryQueue, key)
              was == RetryGet(probe.before, key)
          IN /\ RetryHas(retryQueue, key)
             /\ ~ RetryHas(probe.before, key)
                => /\ item.retries = 1
                   /\ item.nextRetry = probe.time + 1000
                   /\ item.task = probe.task
             /\ (RetryHas(probe.before, key) /\ was.retries < 3)
                => /\ item.retries = was.retries + 1
                   /\ item.nextRetry = probe.time + (2 ^ was.retries) * 1000
                   /\ item.task = probe.task
             /\ (RetryHas(probe.before, key) /\ was.retries = 3)
                => retryQueue = probe.before
             /\ \A i \in 1..Len(probe.before) :
                   probe.before[i].key # key
                   => /\ RetryHas(retryQueue, probe.before[i].key)
                      /\ RetryGet(retryQueue, probe.before[i].key) = probe.before[i].item

\* the call for a key held with retries = 3, made later than the one before
\* it, while another key is held after a second failure
C20_Witness ==
    /\ probe.op = "addToRetryQueue"
    /\ RetryHas(probe.before, RetryKey(probe.task))
    /\ RetryGet(probe.before, RetryKey(probe.task)).retries = 3
    /\ RetryGet(probe.before, RetryKey(probe.task)).nextRetry < probe.time + 4000
    /\ \E i \in 1..Len(retryQueue) :
          retryQueue[i].item.retries = 2 /\ retryQueue[i].item.nextRetry = now + 2000

\* C21: in a step in which a task of the drain path has failed, if the failure
\* was an Error mentioning fetch, the task's retry key is held afterwards, with
\* this task and retries = 1 if it was not held before, and with one more retry
\* or the cap if it was; if the failure was any other, the retry holdings are as
\* they were.  The items of the other keys are unchanged in both cases.
C21_FailureHandOff ==
    [][(lastOutcome' # lastOutcome /\ lastOutcome'.how = "failed"
           /\ lastOutcome'.by = "drain")
       => LET task == lastOutcome'.task
              key == RetryKey(task)
          IN /\ fault = "fetch"
                => /\ RetryHas(retryQueue', key)
                   /\ ~ RetryHas(retryQueue, key)
                      => /\ RetryGet(retryQueue', key).task = task
                         /\ RetryGet(retryQueue', key).retries = 1
                   /\ RetryHas(retryQueue, key)
                      => RetryGet(retryQueue', key).retries
                           = Min({RetryGet(retryQueue, key).retries + 1, MAX_RETRIES})
                   /\ \A i \in 1..Len(retryQueue) :
                         retryQueue[i].key # key
                         => /\ RetryHas(retryQueue', retryQueue[i].key)
                            /\ RetryGet(retryQueue', retryQueue[i].key) = retryQueue[i].item
             /\ fault # "fetch" => retryQueue' = retryQueue
      ]_vars

\* a task of the drain path has failed for the second time with an Error
\* mentioning fetch and is held with two retries
C21_Witness ==
    /\ lastOutcome.how = "failed"
    /\ lastOutcome.by = "drain"
    /\ fault = "fetch"
    /\ phase = "loaded"
    /\ RetryHas(retryQueue, RetryKey(lastOutcome.task))
    /\ RetryGet(retryQueue, RetryKey(lastOutcome.task)).retries = 2
    /\ RetryGet(retryQueue, RetryKey(lastOutcome.task)).task = lastOutcome.task

\* C22: whenever the work list is not empty a drain loop is active and the
\* draining flag is up; a step of a drain loop that pops the head of the work
\* list runs it (it awaits the network for it or has ended it); and a non-empty
\* work list leads to a state where the work list is empty, the flag is down
\* and no drain loop is left.
C22_NoStrandedTask ==
    /\ [](processingQueue # <<>> => (isProcessing /\ loops # <<>>))
    /\ [][(phase' = phase /\ processingQueue # <<>>
              /\ processingQueue' = Tail(processingQueue))
          => \/ \E i \in 1..Len(loops') :
                   loops'[i].pc = "net" /\ loops'[i].task = Head(processingQueue)
             \/ lastOutcome'.task = Head(processingQueue)
         ]_vars
    /\ (processingQueue # <<>>)
          ~> (processingQueue = <<>> /\ ~ isProcessing /\ loops = <<>>)

\* two pastes at time 0, the second one's task waiting in the work list during
\* the pause; it was popped at 100 and the drain has ended at 200
C22_Witness ==
    /\ phase = "loaded"
    /\ now = 2 * PAUSE_DELAY
    /\ budget.user = 0
    /\ processingQueue = <<>>
    /\ ~ isProcessing
    /\ loops = <<>>
    /\ lastOutcome.by = "drain"
    /\ lastOutcome.task.timestamp = 0

====
